---- MODULE Spec2Model ----
(***************************************************************************)
(* State-machine model of the CV processor:                                *)
(*   src/src/app.js        ingestion handler  (S3 upload -> Textract ->     *)
(*                         field parsers -> DynamoDB PutItem)               *)
(*   src/src/roleMatch.js  fit handler (DynamoDB stream INSERT -> Bedrock   *)
(*                         -> DynamoDB UpdateItem)                          *)
(* A JavaScript string is a sequence of one-character strings.  The value   *)
(* undefined / null of a string-typed slot is a sentinel that is no text.   *)
(* An async handler is modelled at its suspension points: one action for    *)
(* its entry, one for the head of its loop, and one per awaited external    *)
(* call, the action being the resumption of the handler with the            *)
(* collaborator's answer (or its rejection) up to the next await.           *)
(***************************************************************************)
EXTENDS Integers, Sequences, FiniteSets, TLC

(***************************************************************************)
(* Bounds of the model.                                                    *)
(***************************************************************************)
MaxBatch == 3      \* records in one ingestion batch
MaxPolls == 2      \* IN_PROGRESS answers the OCR job gives before a terminal one
MaxPages == 2      \* result pages of one OCR job
MaxBlocks == 2     \* blocks in all result pages of one OCR job
MaxFitBatch == 2   \* records in one fit-handler batch
MaxOut == 4
MaxLines == 2       \* lines of a resume drawn from every kind of line
MaxJson == 3        \* pieces of a JSON text the model wraps in fences
MaxTail == 1        \* lines of a resume after the lines the name scan reads        \* pieces of a model output text (evaluator specification)

(***************************************************************************)
(* JavaScript values.                                                      *)
(***************************************************************************)
Undefined == "undefined"          \* undefined in a string-typed slot (token, status, id)
Null == << "<null>" >>            \* null where a text may stand (no text equals it)
\* An object is a record; a property that is undefined is not in its DOMAIN.
Has(obj, field) == field \in DOMAIN obj

\* The grave accent U+0060, which a TLA+ string literal cannot hold.
Backtick == "GRAVE"

\* Characters of the model in UTF-16 code-unit order (the order of Array.sort()).
Charset ==
  << "\t", "\n", "\r", " ", "\"", "%", "+", "-", ".",
     "0", "1", "2", "3", "4", "5", "6", "7", "8", "9", "@",
     "A", "B", "C", "D", "E", "F", "G", "H", "I", "J", "K", "L", "M",
     "N", "O", "P", "Q", "R", "S", "T", "U", "V", "W", "X", "Y", "Z", "_", Backtick,
     "a", "b", "c", "d", "e", "f", "g", "h", "i", "j", "k", "l", "m",
     "n", "o", "p", "q", "r", "s", "t", "u", "v", "w", "x", "y", "z",
     "{", "}" >>

Code(c) == CHOOSE i \in 1..Len(Charset) : Charset[i] = c

Upper == { Charset[i] : i \in Code("A")..Code("Z") }
LowerLetters == { Charset[i] : i \in Code("a")..Code("z") }
Letters == Upper \cup LowerLetters
Digits == { Charset[i] : i \in Code("0")..Code("9") }
\* \s of a regular expression and the characters String.prototype.trim removes
Whitespace == { "\t", "\n", "\r", " " }

\* String.prototype.toLowerCase
LowerChar(c) == IF c \in Upper THEN Charset[Code(c) - Code("A") + Code("a")] ELSE c
toLowerCase(s) == [i \in 1..Len(s) |-> LowerChar(s[i])]

\* String.prototype.includes
includes(s, sub) ==
  \E i \in 1..(Len(s) - Len(sub) + 1) : SubSeq(s, i, i + Len(sub) - 1) = sub

\* String.prototype.startsWith
startsWith(s, pre) == Len(s) >= Len(pre) /\ SubSeq(s, 1, Len(pre)) = pre

\* String.prototype.trim
trim(s) ==
  LET keep == { i \in 1..Len(s) : s[i] \notin Whitespace }
  IN IF keep = {} THEN << >>
     ELSE SubSeq(s, CHOOSE i \in keep : \A j \in keep : i <= j,
                    CHOOSE i \in keep : \A j \in keep : j <= i)

\* Array.prototype.join of a list of strings with "\n"
RECURSIVE joinNL(_)
joinNL(list) ==
  IF list = << >> THEN << >>
  ELSE IF Len(list) = 1 THEN list[1]
  ELSE list[1] \o << "\n" >> \o joinNL(Tail(list))

\* a < b in code-unit order (the comparison of Array.prototype.sort() on strings)
RECURSIVE StrLess(_, _)
StrLess(a, b) ==
  IF b = << >> THEN FALSE
  ELSE IF a = << >> THEN TRUE
  ELSE IF a[1] # b[1] THEN Code(a[1]) < Code(b[1])
  ELSE StrLess(Tail(a), Tail(b))

(***************************************************************************)
(* app.js: the field parsers (pure functions of the extracted text).       *)
(***************************************************************************)
NameScanLines == 8     \* lines.slice(0, 8)
NameMaxTokens == 5     \* line.split(/\s+/).length <= 5
PhoneMinTail == 8      \* [\d\s\-]{8,15}
PhoneMaxTail == 15

EmailLocalClass == Letters \cup Digits \cup { ".", "_", "%", "+", "-" }
EmailDomainClass == Letters \cup Digits \cup { ".", "-" }
PhoneTailClass == Digits \cup Whitespace \cup { "-" }

\* The length of the longest run of characters of class cls that starts at s[i].
RunLen(s, i, cls) ==
  LET stops == { j \in i..Len(s) : s[j] \notin cls }
  IN IF stops = {} THEN Len(s) - i + 1
     ELSE (CHOOSE j \in stops : \A k \in stops : j <= k) - i

\* The end of the match of /[a-zA-Z0-9._%+-]+@[a-zA-Z0-9.-]+\.[a-zA-Z]{2,}/ that
\* starts at s[i], 0 when there is none.  The local part runs up to the "@"; the
\* domain is the longest run that leaves "." and two letters; the letters are greedy.
EmailEndAt(s, i) ==
  LET at == i + RunLen(s, i, EmailLocalClass)
      dmax == at + RunLen(s, at + 1, EmailDomainClass)
      ds == { d \in (at + 1)..dmax :
                /\ d + 3 <= Len(s)
                /\ s[d + 1] = "."
                /\ s[d + 2] \in Letters
                /\ s[d + 3] \in Letters }
      d == CHOOSE x \in ds : \A y \in ds : y <= x
  IN IF at > i /\ at <= Len(s) /\ s[at] = "@" /\ ds # {}
     THEN d + 1 + RunLen(s, d + 2, Letters)
     ELSE 0

extractEmail(text) ==
  LET starts == { i \in 1..Len(text) : EmailEndAt(text, i) > 0 }
      i == CHOOSE x \in starts : \A y \in starts : x <= y
  IN IF starts = {} THEN Null ELSE SubSeq(text, i, EmailEndAt(text, i))

\* The end of the match of /(\+?\d[\d\s\-]{8,15})/ that starts at s[i], 0 when none.
PhoneEndAt(s, i) ==
  LET p == IF s[i] = "+" THEN i + 1 ELSE i
      run == RunLen(s, p + 1, PhoneTailClass)
  IN IF p <= Len(s) /\ s[p] \in Digits /\ run >= PhoneMinTail
     THEN p + (IF run > PhoneMaxTail THEN PhoneMaxTail ELSE run)
     ELSE 0

extractPhone(text) ==
  LET starts == { i \in 1..Len(text) : PhoneEndAt(text, i) > 0 }
      i == CHOOSE x \in starts : \A y \in starts : x <= y
  IN IF starts = {} THEN Null ELSE SubSeq(text, i, PhoneEndAt(text, i))

\* text.split(/\r?\n/)
RECURSIVE splitLines(_)
splitLines(s) ==
  LET nls == { i \in 1..Len(s) : s[i] = "\n" }
      n == CHOOSE i \in nls : \A j \in nls : i <= j
      cut == IF n > 1 /\ s[n - 1] = "\r" THEN n - 2 ELSE n - 1
  IN IF nls = {} THEN << s >>
     ELSE << SubSeq(s, 1, cut) >> \o splitLines(SubSeq(s, n + 1, Len(s)))

\* line.split(/\s+/).length: one more than the number of whitespace runs
TokenCount(line) ==
  1 + Cardinality({ i \in 1..Len(line) :
                      line[i] \in Whitespace /\ (i = 1 \/ line[i - 1] \notin Whitespace) })

NameLineOk(line) ==
  LET lower == toLowerCase(line)
  IN /\ ~ includes(lower, << "r", "e", "s", "u", "m", "e" >>)
     /\ ~ includes(lower, << "c", "u", "r", "r", "i", "c", "u", "l", "u", "m" >>)
     /\ ~ includes(lower, << "v", "i", "t", "a", "e" >>)
     /\ ~ includes(line, << "@" >>)
     /\ \A i \in 1..Len(line) : line[i] \notin Digits
     /\ TokenCount(line) <= NameMaxTokens

\* Mutant of extractName: every line is read, not the first eight.
extractNameAnyLine(text) ==
  LET trimmed == [i \in 1..Len(splitLines(text)) |-> trim(splitLines(text)[i])]
      lines == SelectSeq(trimmed, LAMBDA l : Len(l) > 0)
      ok == { i \in 1..Len(lines) : NameLineOk(lines[i]) }
  IN IF ok = {} THEN Null ELSE lines[CHOOSE i \in ok : \A j \in ok : i <= j]

extractName(text) ==
  LET trimmed == [i \in 1..Len(splitLines(text)) |-> trim(splitLines(text)[i])]
      lines == SelectSeq(trimmed, LAMBDA l : Len(l) > 0)
      head == SubSeq(lines, 1, IF Len(lines) < NameScanLines THEN Len(lines)
                                ELSE NameScanLines)
      ok == { i \in 1..Len(head) : NameLineOk(head[i]) }
  IN IF ok = {} THEN Null ELSE head[CHOOSE i \in ok : \A j \in ok : i <= j]

knownSkills ==
  << << "J", "a", "v", "a" >>,
     << "S", "p", "r", "i", "n", "g", " ", "B", "o", "o", "t" >>,
     << "P", "y", "t", "h", "o", "n" >>,
     << "N", "o", "d", "e", ".", "j", "s" >>,
     << "J", "a", "v", "a", "S", "c", "r", "i", "p", "t" >>,
     << "T", "y", "p", "e", "S", "c", "r", "i", "p", "t" >>,
     << "R", "e", "a", "c", "t" >>,
     << "A", "n", "g", "u", "l", "a", "r" >>,
     << "A", "W", "S" >>,
     << "D", "o", "c", "k", "e", "r" >>,
     << "K", "u", "b", "e", "r", "n", "e", "t", "e", "s" >>,
     << "S", "p", "a", "r", "k" >>,
     << "H", "a", "d", "o", "o", "p" >>,
     << "S", "Q", "L" >>,
     << "N", "o", "S", "Q", "L" >>,
     << "K", "a", "f", "k", "a" >> >>

\* Array.prototype.sort() of a list of distinct strings
RECURSIVE sortStrings(_)
sortStrings(set) ==
  IF set = {} THEN << >>
  ELSE LET least == CHOOSE a \in set : \A b \in set \ {a} : StrLess(a, b)
       IN << least >> \o sortStrings(set \ {least})

\* Mutant of extractSkills: the result is left in the order of the vocabulary.
extractSkillsUnsorted(text) ==
  SelectSeq(knownSkills, LAMBDA v : includes(toLowerCase(text), toLowerCase(v)))

extractSkills(text) ==
  LET lower == toLowerCase(text)
      found == { knownSkills[k] : k \in { j \in 1..Len(knownSkills) :
                                           includes(lower, toLowerCase(knownSkills[j])) } }
  IN sortStrings(found)

(***************************************************************************)
(* app.js: decoding of the object key.                                     *)
(***************************************************************************)
HexDigits == Digits \cup { "A", "B", "C", "D", "E", "F", "a", "b", "c", "d", "e", "f" }

HexVal(c) ==
  IF c \in Digits THEN Code(c) - Code("0")
  ELSE IF c \in Upper THEN 10 + Code(c) - Code("A")
  ELSE 10 + Code(c) - Code("a")

\* The characters of the model that a percent escape below 0x80 can name.
EscapeTable == [v \in { 32, 37, 43 } |-> CASE v = 32 -> " " [] v = 37 -> "%" [] v = 43 -> "+"]

\* record.s3.object.key.replace(/\+/g, " ")
plusToSpace(s) == [i \in 1..Len(s) |-> IF s[i] = "+" THEN " " ELSE s[i]]

\* decodeURIComponent throws URIError: a "%" without two hex digits, or an escaped
\* byte that is no UTF-8 text.  The keys of the model hold the escapes %20, %25 and
\* %2B, and the byte %FF, which no UTF-8 text holds.
RECURSIVE uriMalformed(_)
uriMalformed(s) ==
  IF s = << >> THEN FALSE
  ELSE IF s[1] # "%" THEN uriMalformed(Tail(s))
  ELSE \/ Len(s) < 3
       \/ s[2] \notin HexDigits
       \/ s[3] \notin HexDigits
       \/ 16 * HexVal(s[2]) + HexVal(s[3]) \notin DOMAIN EscapeTable
       \/ uriMalformed(SubSeq(s, 4, Len(s)))

RECURSIVE decodeURIComponent(_)
decodeURIComponent(s) ==
  IF s = << >> THEN << >>
  ELSE IF s[1] # "%" THEN << s[1] >> \o decodeURIComponent(Tail(s))
  ELSE << EscapeTable[16 * HexVal(s[2]) + HexVal(s[3])] >>
         \o decodeURIComponent(SubSeq(s, 4, Len(s)))

(***************************************************************************)
(* The state.                                                              *)
(***************************************************************************)
VARIABLES
  \* ---- ingestion handler (app.js), one invocation
  event,       \* the invocation's argument
  pc,          \* where the handler is suspended
  idx,         \* the place of `record` in event.Records (for ... of)
  bucket,      \* const bucket
  key,         \* const key
  jobId,       \* extractTextFromS3Pdf: const jobId
  jobStatus,   \* extractTextFromS3Pdf: let jobStatus
  pagesText,   \* extractTextFromS3Pdf: let pagesText
  nextToken,   \* extractTextFromS3Pdf: let nextToken
  item,        \* const item, while saveCandidateToDynamo is awaited
  result,      \* what the invocation resolved with
  uuid,        \* how many identifiers randomUUID has handed out
  \* ---- the collaborators
  table,       \* the store: the set of its rows
  ocrBlocks,   \* the block lists a result page of the OCR service may carry
  jobs,        \* OCR jobs started so far
  polls,       \* IN_PROGRESS answers of the current job
  \* ---- history of the invocation
  gets,        \* the GetDocumentTextDetection exchanges of the current extraction
  startCalls,  \* per record: StartDocumentTextDetection requests sent
  putCalls,    \* per record: PutItem requests sent
  outcome      \* per record: "none", "saved" or "failed"

  \* ---- fit handler (roleMatch.js), one entry per invocation
VARIABLES
  fitEvent,    \* the invocation's argument
  fitPc,       \* where the handler is suspended
  fitIdx,      \* the place of `record` in event.Records
  aiFit,       \* const aiFit, while updateCandidateAiFit is awaited
  fitResult,   \* how the invocation ended
  modelTexts,  \* which output texts the model collaborator may give
  modelOut,    \* per record: the answers InvokeModel gave
  modelCalls,  \* per record: InvokeModel requests sent
  updateCalls, \* per record: UpdateItem requests sent
  fitOutcome   \* per record: "none", "skipped", "failed" or "updated"

fitVars ==
  << fitEvent, fitPc, fitIdx, aiFit, fitResult, modelTexts, modelOut, modelCalls,
     updateCalls, fitOutcome >>

ingestVars ==
  << event, pc, idx, bucket, key, jobId, jobStatus, pagesText, nextToken, item,
     result, uuid, ocrBlocks, jobs, polls, gets, startCalls, putCalls, outcome >>

vars == << ingestVars, fitVars, table >>

(***************************************************************************)
(* Inputs: upload notifications and the answers of the OCR service.        *)
(***************************************************************************)
BucketName == << "c", "v" >>

S3Record(k) ==
  [eventSource |-> "aws:s3",
   s3 |-> [bucket |-> [name |-> BucketName], object |-> [key |-> k]]]

\* "a+b" decodes to "a b", "a%2Bb" to "a+b"; "%" and "a%FF" cannot be decoded.
GoodKeys == { << "a", "+", "b" >>, << "a", "%", "2", "B", "b" >>, << "%", "2", "0" >> }
BadKeys == { << "%" >>, << "a", "%", "F", "F" >> }

\* Notifications without the container/key fields.
NoS3Record == [eventSource |-> "aws:s3"]
NoKeyRecord ==
  [eventSource |-> "aws:s3", s3 |-> [bucket |-> [name |-> BucketName], object |-> [size |-> 1]]]

BatchRecords ==
  { S3Record(<< "a", "+", "b" >>), S3Record(<< "%" >>), NoS3Record, NoKeyRecord }

SingleRecords ==
  { S3Record(k) : k \in GoodKeys \cup BadKeys } \cup { NoS3Record, NoKeyRecord }

SeqsUpTo(S, n) == UNION { [1..k -> S] : k \in 0..n }

Line(t) == [BlockType |-> "LINE", Text |-> t]
Word(t) == [BlockType |-> "WORD", Text |-> t]
PageBlock == [BlockType |-> "PAGE"]

\* Blocks of a result page: two lines, a line with empty text, a word, a page.
BlockAlphabet ==
  { Line(<< "A", "l" >>), Line(<< "S", "Q", "L" >>), Line(<< >>),
    Word(<< "A", "l" >>), PageBlock }

PlainBlocks == { << Line(<< "A", "l" >>) >> }

ContinuationTokens == { "t1", "t2" }

\* The statuses a GetDocumentTextDetection answer may carry.
JobStatuses == { "IN_PROGRESS", "SUCCEEDED", "FAILED", "PARTIAL_SUCCESS" }

BlocksSoFar ==
  LET RECURSIVE count(_)
      count(k) ==
        IF k = 0 THEN 0
        ELSE count(k - 1) + (IF Has(gets[k].res, "Blocks") THEN Len(gets[k].res.Blocks) ELSE 0)
  IN count(Len(gets))

\* The answers the OCR service may give to the GetDocumentTextDetection that is
\* awaited: the job stays IN_PROGRESS at most MaxPolls times, and its result has at most MaxPages
\* pages; the pages after the first carry blocks while the result has at most
\* MaxBlocks of them.
GetResponses ==
  LET withBlocks ==
        { [JobStatus |-> "SUCCEEDED", Blocks |-> b] :
            b \in { x \in ocrBlocks : BlocksSoFar = 0 \/ Len(x) <= MaxBlocks - BlocksSoFar } }
      pages == { [JobStatus |-> "SUCCEEDED"] } \cup withBlocks
      lastPage == Len(pagesText) + 1 >= MaxPages
  IN IF pc \notin { "poll", "more" } THEN {}
     ELSE
     (IF pc = "poll"
      THEN { [JobStatus |-> st] : st \in { "FAILED", "PARTIAL_SUCCESS" } }
             \cup (IF polls < MaxPolls THEN { [JobStatus |-> "IN_PROGRESS"] } ELSE {})
      ELSE {})
     \cup pages
     \cup (IF lastPage THEN {}
           ELSE { r @@ [NextToken |-> t] : r \in pages, t \in ContinuationTokens })

(***************************************************************************)
(* app.js: extractTextFromS3Pdf, saveCandidateToDynamo.                    *)
(***************************************************************************)
\* (getRes.Blocks || []).filter(b => b.BlockType === "LINE" && b.Text)
\*                      .map(b => b.Text).join("\n")
pageLines(res) ==
  LET blocks == IF Has(res, "Blocks") THEN res.Blocks ELSE << >>
      lines == SelectSeq(blocks, LAMBDA b : b.BlockType = "LINE" /\ Has(b, "Text")
                                            /\ b.Text # << >>)
  IN joinNL([i \in 1..Len(lines) |-> lines[i].Text])

\* Mutant of tokenOf: the continuation token is not read.
tokenDropped(res) == Undefined

\* getRes.NextToken
tokenOf(res) == IF Has(res, "NextToken") THEN res.NextToken ELSE Undefined

\* while (nextToken)
Truthy(tok) == tok # Undefined /\ tok # ""

\* randomUUID(): the n-th identifier handed out, all distinct
randomUUID(n) == << "u", Charset[Code("0") + n] >>

\* exports.handler lines 193-200: the candidate parsed from the extracted text
parseCandidate(id, b, k, text) ==
  [candidateId |-> id, bucket |-> b, fileKey |-> k, rawText |-> text,
   name |-> extractName(text), email |-> extractEmail(text),
   phone |-> extractPhone(text), skills |-> extractSkills(text)]

\* Mutant of putItemParams: the optional fields are written whatever they hold.
putItemPlaceholders(it) ==
  [candidateId |-> [S |-> it.candidateId], bucket |-> [S |-> it.bucket],
   fileKey |-> [S |-> it.fileKey], rawText |-> [S |-> it.rawText],
   name |-> [S |-> it.name], email |-> [S |-> it.email], phone |-> [S |-> it.phone],
   skills |-> [SS |-> it.skills]]

\* saveCandidateToDynamo: the Item of the PutItemCommand
putItemParams(it) ==
  [candidateId |-> [S |-> it.candidateId], bucket |-> [S |-> it.bucket],
   fileKey |-> [S |-> it.fileKey], rawText |-> [S |-> it.rawText]]
  @@ (IF it.name # Null /\ it.name # << >> THEN [name |-> [S |-> it.name]] ELSE << >>)
  @@ (IF it.email # Null /\ it.email # << >> THEN [email |-> [S |-> it.email]] ELSE << >>)
  @@ (IF it.phone # Null /\ it.phone # << >> THEN [phone |-> [S |-> it.phone]] ELSE << >>)
  @@ (IF Len(it.skills) > 0 THEN [skills |-> [SS |-> it.skills]] ELSE << >>)

\* The store after PutItem: the row of that key is replaced.
PutItem(tbl, row) == { r \in tbl : r.candidateId # row.candidateId } \cup { row }

NoItem == [none |-> TRUE]
NoResult == [pending |-> TRUE]

(***************************************************************************)
(* app.js: exports.handler.                                                *)
(***************************************************************************)
Records == IF Has(event, "Records") THEN event.Records ELSE << >>

\* Lines 183-184 stand before the try: reading record.s3.bucket.name or
\* record.s3.object.key of a notification without them throws TypeError, and
\* decodeURIComponent throws URIError.
ThrowsBeforeTry(rec) ==
  \/ ~ Has(rec, "s3")
  \/ ~ Has(rec.s3, "bucket")
  \/ ~ Has(rec.s3, "object")
  \/ ~ Has(rec.s3.object, "key")
  \/ uriMalformed(plusToSpace(rec.s3.object.key))

\* Mutant of Catch: the error is thrown again and the invocation rejects.
CatchRethrows ==
  /\ pc' = "rejected"
  /\ idx' = idx
  /\ outcome' = [outcome EXCEPT ![idx] = "failed"]
  /\ item' = NoItem
  /\ result' = [rejected |-> TRUE]
  /\ UNCHANGED table

\* Mutant of Catch: the failed record is processed again.
CatchRetries ==
  /\ pc' = "loop"
  /\ idx' = idx
  /\ outcome' = [outcome EXCEPT ![idx] = "failed"]
  /\ item' = NoItem
  /\ UNCHANGED << result, table >>

\* Mutant of Catch: after a failure the loop leaves out the record that follows.
CatchSkipsNext ==
  /\ pc' = "loop"
  /\ idx' = idx + 2
  /\ outcome' = [outcome EXCEPT ![idx] = "failed"]
  /\ item' = NoItem
  /\ UNCHANGED << result, table >>

\* catch (err) { console.error(...) }: the loop goes on with the next record.
Catch ==
  /\ pc' = "loop"
  /\ idx' = idx + 1
  /\ outcome' = [outcome EXCEPT ![idx] = "failed"]
  /\ item' = NoItem
  /\ UNCHANGED << result, table >>

\* if (!event.Records || event.Records.length === 0) return "No records"
HandlerEntry ==
  /\ pc = "entry"
  /\ IF ~ Has(event, "Records") \/ Len(event.Records) = 0
     THEN /\ pc' = "done"
          /\ result' = [statusCode |-> 200, body |-> "No records"]
          /\ idx' = idx
     ELSE /\ pc' = "loop"
          /\ idx' = 1
          /\ result' = result
  /\ UNCHANGED << event, bucket, key, jobId, jobStatus, pagesText, nextToken, item,
                  uuid, ocrBlocks, jobs, polls, gets, startCalls, putCalls, outcome,
                  table, fitVars >>

\* for (const record of event.Records): the next record, up to the await of
\* StartDocumentTextDetection; after the last record, return "OK".
LoopHead ==
  /\ pc = "loop"
  /\ IF idx > Len(Records)
     THEN /\ pc' = "done"
          /\ result' = [statusCode |-> 200, body |-> "OK"]
          /\ UNCHANGED << bucket, key, startCalls >>
     ELSE IF ThrowsBeforeTry(Records[idx])
     THEN /\ pc' = "rejected"
          /\ result' = [rejected |-> TRUE]
          /\ UNCHANGED << bucket, key, startCalls >>
     ELSE /\ bucket' = Records[idx].s3.bucket.name
          /\ key' = decodeURIComponent(plusToSpace(Records[idx].s3.object.key))
          /\ startCalls' = [startCalls EXCEPT ![idx] = @ + 1]
          /\ pc' = "start"
          /\ result' = result
  /\ UNCHANGED << event, idx, jobId, jobStatus, pagesText, nextToken, item, uuid,
                  ocrBlocks, jobs, polls, gets, putCalls, outcome, table, fitVars >>

\* extractTextFromS3Pdf lines 89-99: the start request answered with a JobId; the
\* loop is entered and its delay awaited.
StartResolved ==
  /\ pc = "start"
  /\ jobs' = jobs + 1
  /\ jobId' = jobs + 1
  /\ jobStatus' = "IN_PROGRESS"
  /\ pagesText' = << >>
  /\ nextToken' = Undefined
  /\ polls' = 0
  /\ gets' = << >>
  /\ pc' = "sleep"
  /\ UNCHANGED << event, idx, bucket, key, item, result, uuid, ocrBlocks, startCalls,
                  putCalls, outcome, table, fitVars >>

\* Line 99: await sleep(2000) is over; lines 101-106 send the status request.
SleepResolved ==
  /\ pc = "sleep"
  /\ pc' = "poll"
  /\ UNCHANGED << event, idx, bucket, key, jobId, jobStatus, pagesText, nextToken, item,
                  result, uuid, ocrBlocks, jobs, polls, gets, startCalls, putCalls,
                  outcome, table, fitVars >>

\* textract.send(startCmd) rejects.
StartRejected ==
  /\ pc = "start"
  /\ Catch
  /\ UNCHANGED << event, bucket, key, jobId, jobStatus, pagesText, nextToken, uuid,
                  ocrBlocks, jobs, polls, gets, startCalls, putCalls, fitVars >>

\* return pagesText.join("\n"), then handler lines 191-204 up to the await of PutItem.
ReturnText(pages) ==
  /\ item' = parseCandidate(randomUUID(uuid + 1), bucket, key, joinNL(pages))
  /\ uuid' = uuid + 1
  /\ putCalls' = [putCalls EXCEPT ![idx] = @ + 1]
  /\ pc' = "put"
  /\ UNCHANGED << idx, outcome, result, table >>

\* Mutant of loopCondition: the loop is left after one turn.
loopLeft(status) == FALSE

\* Line 98: while (jobStatus === "IN_PROGRESS")
loopCondition(status) == status = "IN_PROGRESS"

\* The request the code sends: GetDocumentTextDetection { JobId, NextToken }.
getRequest == [JobId |-> jobId, NextToken |-> nextToken]

\* Lines 98-143: one turn of the poll loop, answered with res.
GetResolved(res) ==
  /\ pc = "poll"
  /\ gets' = Append(gets, [req |-> getRequest, res |-> res])
  /\ jobStatus' = res.JobStatus
  /\ polls' = IF res.JobStatus = "IN_PROGRESS" THEN polls + 1 ELSE polls
  /\ IF res.JobStatus = "FAILED"
     THEN /\ Catch
          /\ UNCHANGED << pagesText, nextToken, uuid, putCalls >>
     ELSE IF res.JobStatus = "SUCCEEDED"
     THEN /\ pagesText' = Append(pagesText, pageLines(res))
          /\ nextToken' = tokenOf(res)
          /\ IF Truthy(tokenOf(res))
             THEN /\ pc' = "more"
                  /\ UNCHANGED << idx, item, uuid, putCalls, outcome, result, table >>
             ELSE ReturnText(Append(pagesText, pageLines(res)))
     ELSE IF loopCondition(res.JobStatus)
     THEN /\ pc' = "sleep"
          /\ UNCHANGED << idx, pagesText, nextToken, item, uuid, putCalls, outcome,
                          result, table >>
     ELSE /\ ReturnText(pagesText)
          /\ UNCHANGED << pagesText, nextToken >>
  /\ UNCHANGED << event, bucket, key, jobId, ocrBlocks, jobs, startCalls, fitVars >>

\* Lines 125-139: one turn of the pagination loop, answered with res.
MoreResolved(res) ==
  /\ pc = "more"
  /\ gets' = Append(gets, [req |-> getRequest, res |-> res])
  /\ pagesText' = Append(pagesText, pageLines(res))
  /\ nextToken' = tokenOf(res)
  /\ IF Truthy(tokenOf(res))
     THEN UNCHANGED << pc, idx, item, uuid, putCalls, outcome, result, table >>
     ELSE ReturnText(Append(pagesText, pageLines(res)))
  /\ UNCHANGED << event, bucket, key, jobId, jobStatus, ocrBlocks, jobs, polls,
                  startCalls, fitVars >>

\* textract.send(getCmd) or textract.send(moreCmd) rejects.
GetRejected ==
  /\ pc \in { "poll", "more" }
  /\ Catch
  /\ UNCHANGED << event, bucket, key, jobId, jobStatus, pagesText, nextToken, uuid,
                  ocrBlocks, jobs, polls, gets, startCalls, putCalls, fitVars >>

\* saveCandidateToDynamo: dynamodb.send(PutItemCommand) resolves; the row is stored.
PutResolved ==
  /\ pc = "put"
  /\ table' = PutItem(table, putItemParams(item))
  /\ outcome' = [outcome EXCEPT ![idx] = "saved"]
  /\ item' = NoItem
  /\ idx' = idx + 1
  /\ pc' = "loop"
  /\ UNCHANGED << event, bucket, key, jobId, jobStatus, pagesText, nextToken, result,
                  uuid, ocrBlocks, jobs, polls, gets, startCalls, putCalls, fitVars >>

\* dynamodb.send(PutItemCommand) rejects: nothing is stored.
PutRejected ==
  /\ pc = "put"
  /\ Catch
  /\ UNCHANGED << event, bucket, key, jobId, jobStatus, pagesText, nextToken, uuid,
                  ocrBlocks, jobs, polls, gets, startCalls, putCalls, fitVars >>

(***************************************************************************)
(* roleMatch.js: JSON.  A JSON value is a tagged record; an object keeps    *)
(* its members in insertion order.  The model's output texts are made of    *)
(* the characters above and of ObjPiece, which stands for one line of JSON  *)
(* matching the schema of the prompt (it holds no grave accent).            *)
(***************************************************************************)
JNull == [t |-> "null"]
JNumber(digits) == [t |-> "number", digits |-> digits]
JString(str) == [t |-> "string", s |-> str]
JArray(items) == [t |-> "array", items |-> items]
JObject(members) == [t |-> "object", members |-> members]
Member(k, v) == [k |-> k, v |-> v]

ObjPiece == "{assessment}"

\* The value ObjPiece is the text of.
Assessment ==
  JObject(<< Member("fitScore", JNumber(<< "8", "0" >>)),
             Member("summary", JString(<< "o", "k" >>)),
             Member("keyStrengths", JArray(<< JString(<< "S", "Q", "L" >>) >>)),
             Member("concerns", JArray(<< >>)),
             Member("skillsMatched", JArray(<< JString(<< "S", "Q", "L" >>) >>)),
             Member("skillsMissing", JArray(<< >>)),
             Member("recommendedLevel", JString(<< "S", "e", "n", "i", "o", "r" >>)) >>)

\* Lines 89-97: the assessment returned when the output is not JSON.
Degraded(textOut) ==
  JObject(<< Member("fitScore", JNull),
             Member("summary", JString(textOut)),
             Member("keyStrengths", JArray(<< >>)),
             Member("concerns", JArray(<< >>)),
             Member("skillsMatched", JArray(<< >>)),
             Member("skillsMissing", JArray(<< >>)),
             Member("recommendedLevel", JString(<< "U", "n", "k", "n", "o", "w", "n" >>)) >>)

\* Characters a JSON string may not hold unescaped (the model has no backslash).
JsonStringBreakers == { "\"", "\t", "\n", "\r", ObjPiece }

\* JSON.parse of a text of the model, after its leading and trailing whitespace:
\* the schema object, an empty object, an integer, null or a string; anything else
\* is a SyntaxError.
jsonKind(s) ==
  LET t == trim(s)
      n == Len(t)
  IN IF t = << ObjPiece >> THEN "assessment"
     ELSE IF n >= 2 /\ t[1] = "{" /\ t[n] = "}"
               /\ \A i \in 2..(n - 1) : t[i] \in Whitespace THEN "emptyObject"
     ELSE IF n >= 1 /\ (\A i \in 1..n : t[i] \in Digits) /\ (n = 1 \/ t[1] # "0")
       THEN "number"
     ELSE IF t = << "n", "u", "l", "l" >> THEN "null"
     ELSE IF n >= 2 /\ t[1] = "\"" /\ t[n] = "\""
               /\ \A i \in 2..(n - 1) : t[i] \notin JsonStringBreakers THEN "string"
     ELSE "SyntaxError"

jsonParse(s) ==
  LET t == trim(s)
      kind == jsonKind(s)
  IN CASE kind = "assessment" -> Assessment
       [] kind = "emptyObject" -> JObject(<< >>)
       [] kind = "number" -> JNumber(t)
       [] kind = "null" -> JNull
       [] kind = "string" -> JString(SubSeq(t, 2, Len(t) - 1))

\* JSON.stringify: a text of characters and of pieces that stand for the
\* punctuation and the keys of an object.
escapeChar(c) ==
  CASE c = "\"" -> << "\\", "\"" >>
    [] c = "\n" -> << "\\", "n" >>
    [] c = "\r" -> << "\\", "r" >>
    [] c = "\t" -> << "\\", "t" >>
    [] c = ObjPiece -> << "{assessment-escaped}" >>
    [] OTHER -> << c >>

RECURSIVE escapeString(_)
escapeString(str) ==
  IF str = << >> THEN << >> ELSE escapeChar(str[1]) \o escapeString(Tail(str))

RECURSIVE jsonStringify(_)
jsonStringify(v) ==
  LET RECURSIVE list(_, _)
      list(parts, k) ==
        IF k > Len(parts) THEN << >>
        ELSE (IF k > 1 THEN << "," >> ELSE << >>) \o parts[k] \o list(parts, k + 1)
  IN CASE v.t = "null" -> << "n", "u", "l", "l" >>
       [] v.t = "number" -> v.digits
       [] v.t = "string" -> << "\"" >> \o escapeString(v.s) \o << "\"" >>
       [] v.t = "array" ->
            << "[" >> \o list([k \in 1..Len(v.items) |-> jsonStringify(v.items[k])], 1)
                      \o << "]" >>
       [] v.t = "object" ->
            << "{" >>
            \o list([k \in 1..Len(v.members) |->
                       << "\"", v.members[k].k, "\"", ":" >> \o jsonStringify(v.members[k].v)], 1)
            \o << "}" >>

(***************************************************************************)
(* roleMatch.js: evaluateCandidateWithBedrock, updateCandidateAiFit.       *)
(***************************************************************************)
Fence == << Backtick, Backtick, Backtick >>

\* textOut.replace(/```json?/gi, "")
RECURSIVE stripTaggedFences(_)
stripTaggedFences(s) ==
  IF s = << >> THEN << >>
  ELSE IF startsWith(s, Fence) /\ Len(s) >= 6
            /\ toLowerCase(SubSeq(s, 4, 6)) = << "j", "s", "o" >>
       THEN IF Len(s) >= 7 /\ LowerChar(s[7]) = "n"
            THEN stripTaggedFences(SubSeq(s, 8, Len(s)))
            ELSE stripTaggedFences(SubSeq(s, 7, Len(s)))
       ELSE << s[1] >> \o stripTaggedFences(Tail(s))

\* .replace(/```/g, "")
RECURSIVE stripFences(_)
stripFences(s) ==
  IF s = << >> THEN << >>
  ELSE IF startsWith(s, Fence) THEN stripFences(SubSeq(s, 4, Len(s)))
  ELSE << s[1] >> \o stripFences(Tail(s))

\* Lines 71-72: responseJson?.results?.[0]?.outputText ?? "{}"
outputTextOf(responseJson) ==
  IF Has(responseJson, "results") /\ Len(responseJson.results) > 0
     /\ Has(responseJson.results[1], "outputText")
  THEN responseJson.results[1].outputText
  ELSE << "{", "}" >>

\* Lines 72-80: the text handed to JSON.parse
cleanedOutput(responseJson) ==
  LET textOut == trim(outputTextOf(responseJson))
  IN IF startsWith(textOut, Fence)
     THEN trim(stripFences(stripTaggedFences(textOut)))
     ELSE textOut

\* Mutant of evaluateResponse: the fallback leaves the summary empty.
evaluateEmptySummary(responseJson) ==
  LET textOut == cleanedOutput(responseJson)
  IN IF jsonKind(textOut) # "SyntaxError" THEN jsonParse(textOut) ELSE Degraded(<< >>)

\* Lines 82-98: what evaluateCandidateWithBedrock returns for a response body
evaluateResponse(responseJson) ==
  LET textOut == cleanedOutput(responseJson)
  IN IF jsonKind(textOut) # "SyntaxError" THEN jsonParse(textOut) ELSE Degraded(textOut)

\* Mutant of UpdateItem: the row is replaced by one that holds the key and aiFit.
UpdateItemReplaces(tbl, candidateId, fit) ==
  { r \in tbl : r.candidateId.S # candidateId }
  \cup { [candidateId |-> [S |-> candidateId], aiFit |-> [S |-> jsonStringify(fit)]] }

\* The store after UpdateItem SET aiFit = :fit on the key candidateId: the row of
\* that key gets the attribute; without such a row, one is created.
UpdateItem(tbl, candidateId, fit) ==
  LET attr == [aiFit |-> [S |-> jsonStringify(fit)]]
      hit == { r \in tbl : r.candidateId.S = candidateId }
  IN IF hit = {} THEN tbl \cup { attr @@ [candidateId |-> [S |-> candidateId]] }
     ELSE (tbl \ hit) \cup { attr @@ r : r \in hit }

(***************************************************************************)
(* roleMatch.js: exports.handler, invocation i.                            *)
(***************************************************************************)
FitRecords(i) == IF Has(fitEvent[i], "Records") THEN fitEvent[i].Records ELSE << >>

\* record.dynamodb.NewImage || {}
newImageOf(rec) == IF Has(rec.dynamodb, "NewImage") THEN rec.dynamodb.NewImage ELSE << >>

\* newImage.candidateId?.S, newImage.rawText?.S: the text, or undefined (no text)
attrS(img, name) ==
  IF Has(img, name) /\ Has(img[name], "S") THEN img[name].S ELSE Null

\* if (!candidateId || !rawText): undefined and "" are falsy
Falsy(text) == text = Null \/ text = << >>

\* Line 129: only INSERT events are handled.
notInsert(rec) == ~ Has(rec, "eventName") \/ rec.eventName # "INSERT"

\* Line 133: record.dynamodb.NewImage of a record without dynamodb throws TypeError.
throwsInTry(rec) == ~ Has(rec, "dynamodb")

\* Mutant of missingFields: the raw text is not looked at.
missingIdOnly(rec) == Falsy(attrS(newImageOf(rec), "candidateId"))

\* Line 137
missingFields(rec) ==
  Falsy(attrS(newImageOf(rec), "candidateId")) \/ Falsy(attrS(newImageOf(rec), "rawText"))

\* Mutant of alreadyHasAiFit: the presence check is left out.
aiFitNotChecked(rec) == FALSE

\* Line 143: if (newImage.aiFit)
alreadyHasAiFit(rec) == Has(newImageOf(rec), "aiFit")

\* Lines 129-146: the record is neither skipped nor thrown on before the model call.
reachesModelCall(rec) ==
  /\ ~ notInsert(rec)
  /\ ~ throwsInTry(rec)
  /\ ~ missingFields(rec)
  /\ ~ alreadyHasAiFit(rec)

\* Mutant of FitAdvance: a failed record is processed again.
FitAdvanceRetries(i, how) ==
  /\ fitPc' = [fitPc EXCEPT ![i] = "loop"]
  /\ fitIdx' = [fitIdx EXCEPT ![i] = IF how = "failed" THEN @ ELSE @ + 1]
  /\ fitOutcome' = [fitOutcome EXCEPT ![i][fitIdx[i]] = how]
  /\ aiFit' = [aiFit EXCEPT ![i] = NoItem]
  /\ UNCHANGED << fitResult, table >>

\* Mutant of FitAdvance: the error of a failed record is thrown again.
FitAdvanceRethrows(i, how) ==
  /\ fitPc' = [fitPc EXCEPT ![i] = IF how = "failed" THEN "rejected" ELSE "loop"]
  /\ fitIdx' = [fitIdx EXCEPT ![i] = IF how = "failed" THEN @ ELSE @ + 1]
  /\ fitOutcome' = [fitOutcome EXCEPT ![i][fitIdx[i]] = how]
  /\ aiFit' = [aiFit EXCEPT ![i] = NoItem]
  /\ fitResult' = [fitResult EXCEPT ![i] = IF how = "failed" THEN "rejected" ELSE @]
  /\ UNCHANGED table

\* continue, or catch (err) { console.error(...) }: on to the next record.
FitAdvance(i, how) ==
  /\ fitPc' = [fitPc EXCEPT ![i] = "loop"]
  /\ fitIdx' = [fitIdx EXCEPT ![i] = @ + 1]
  /\ fitOutcome' = [fitOutcome EXCEPT ![i][fitIdx[i]] = how]
  /\ aiFit' = [aiFit EXCEPT ![i] = NoItem]
  /\ UNCHANGED << fitResult, table >>

\* Lines 123-125: if (!event.Records || event.Records.length === 0) return
FitEntry(i) ==
  /\ fitPc[i] = "entry"
  /\ IF ~ Has(fitEvent[i], "Records") \/ Len(fitEvent[i].Records) = 0
     THEN /\ fitPc' = [fitPc EXCEPT ![i] = "done"]
          /\ fitResult' = [fitResult EXCEPT ![i] = "resolved"]
          /\ fitIdx' = fitIdx
     ELSE /\ fitPc' = [fitPc EXCEPT ![i] = "loop"]
          /\ fitIdx' = [fitIdx EXCEPT ![i] = 1]
          /\ fitResult' = fitResult
  /\ UNCHANGED << fitEvent, aiFit, modelTexts, modelOut, modelCalls, updateCalls,
                  fitOutcome, table, ingestVars >>

\* Lines 127-150: the next record, up to the await of InvokeModel; after the last
\* record the handler resolves.
FitLoopHead(i) ==
  /\ fitPc[i] = "loop"
  /\ IF fitIdx[i] > Len(FitRecords(i))
     THEN /\ fitPc' = [fitPc EXCEPT ![i] = "done"]
          /\ fitResult' = [fitResult EXCEPT ![i] = "resolved"]
          /\ UNCHANGED << fitIdx, aiFit, modelCalls, fitOutcome, table >>
     ELSE LET rec == FitRecords(i)[fitIdx[i]]
          IN IF notInsert(rec)
             THEN FitAdvance(i, "skipped") /\ UNCHANGED modelCalls
             ELSE IF throwsInTry(rec)
             THEN FitAdvance(i, "failed") /\ UNCHANGED modelCalls
             ELSE IF missingFields(rec) \/ alreadyHasAiFit(rec)
             THEN FitAdvance(i, "skipped") /\ UNCHANGED modelCalls
             ELSE /\ modelCalls' = [modelCalls EXCEPT ![i][fitIdx[i]] = @ + 1]
                  /\ fitPc' = [fitPc EXCEPT ![i] = "model"]
                  /\ UNCHANGED << fitIdx, aiFit, fitResult, fitOutcome, table >>
  /\ UNCHANGED << fitEvent, modelTexts, modelOut, updateCalls, ingestVars >>

\* Lines 66-98 and 150-154: InvokeModel answered with a body; the assessment is
\* parsed and UpdateItem is sent.
ModelResolved(i, responseJson) ==
  /\ fitPc[i] = "model"
  /\ modelOut' = [modelOut EXCEPT ![i][fitIdx[i]] = Append(@, responseJson)]
  /\ aiFit' = [aiFit EXCEPT ![i] = evaluateResponse(responseJson)]
  /\ updateCalls' = [updateCalls EXCEPT ![i][fitIdx[i]] = @ + 1]
  /\ fitPc' = [fitPc EXCEPT ![i] = "update"]
  /\ UNCHANGED << fitEvent, fitIdx, fitResult, modelTexts, modelCalls, fitOutcome,
                  table, ingestVars >>

\* bedrock.send rejects, or the response body is not JSON text.
ModelRejected(i) ==
  /\ fitPc[i] = "model"
  /\ FitAdvance(i, "failed")
  /\ UNCHANGED << fitEvent, modelTexts, modelOut, modelCalls, updateCalls, ingestVars >>

\* updateCandidateAiFit: dynamodb.send(UpdateItemCommand) resolves.
UpdateResolved(i) ==
  /\ fitPc[i] = "update"
  /\ table' = UpdateItem(table, attrS(newImageOf(FitRecords(i)[fitIdx[i]]), "candidateId"),
                         aiFit[i])
  /\ fitPc' = [fitPc EXCEPT ![i] = "loop"]
  /\ fitIdx' = [fitIdx EXCEPT ![i] = @ + 1]
  /\ fitOutcome' = [fitOutcome EXCEPT ![i][fitIdx[i]] = "updated"]
  /\ aiFit' = [aiFit EXCEPT ![i] = NoItem]
  /\ UNCHANGED << fitEvent, fitResult, modelTexts, modelOut, modelCalls, updateCalls,
                  ingestVars >>

\* dynamodb.send(UpdateItemCommand) rejects.
UpdateRejected(i) ==
  /\ fitPc[i] = "update"
  /\ FitAdvance(i, "failed")
  /\ UNCHANGED << fitEvent, modelTexts, modelOut, modelCalls, updateCalls, ingestVars >>

(***************************************************************************)
(* Inputs: store-change notifications and the answers of the model.        *)
(***************************************************************************)
Candidate1 == << "c", "1" >>
Candidate2 == << "c", "2" >>
ResumeText == << "S", "Q", "L" >>

\* The new-row snapshot of a change record; an argument Null leaves the attribute out.
Image(cid, text, fit) ==
  (IF cid # Null THEN [candidateId |-> [S |-> cid]] ELSE << >>)
  @@ (IF text # Null THEN [rawText |-> [S |-> text]] ELSE << >>)
  @@ (IF fit # Null THEN [aiFit |-> [S |-> fit]] ELSE << >>)

Change(name, img) == [eventName |-> name, dynamodb |-> [NewImage |-> img]]

\* Every shape of change record: insert or not, identifier and text absent, empty or
\* present, assessment present or not; and records without snapshot or payload.
FitRecordShapes ==
  { Change(n, Image(c, t, f)) :
      n \in { "INSERT", "MODIFY" },
      c \in { Null, << >>, Candidate1 },
      t \in { Null, << >>, ResumeText },
      f \in { Null, << "{", "}" >> } }
  \cup { [eventName |-> "REMOVE", dynamodb |-> [SequenceNumber |-> 1]],
          [eventName |-> "INSERT", dynamodb |-> [SequenceNumber |-> 1]],
          [eventName |-> "INSERT"] }

\* The change records of two rows, for overlapping invocations.
RaceRecordShapes ==
  { Change("INSERT", Image(Candidate1, ResumeText, Null)),
    Change("INSERT", Image(Candidate2, ResumeText, Null)),
    Change("INSERT", Image(Candidate1, ResumeText, << "{", "}" >>)) }

\* Pieces of an output text: whitespace, a fence, the tag, JSON texts, prose, a quote.
OutputPieces ==
  { << " " >>, Fence, << "j", "s", "o", "n" >>, << ObjPiece >>, << "{", "}" >>,
    << "7" >>, << "o", "k" >>, << "\"" >> }

RECURSIVE flatten(_)
flatten(parts) == IF parts = << >> THEN << >> ELSE parts[1] \o flatten(Tail(parts))

AnyTexts == { flatten(parts) : parts \in SeqsUpTo(OutputPieces, MaxOut) }

\* JSON, padded prose, fenced JSON with a tag, fenced prose, a bare number.
PlainTexts ==
  { << ObjPiece >>, << " ", "o", "k" >>,
    Fence \o << "j", "s", "o", "n", "\n", ObjPiece, "\n" >> \o Fence,
    Fence \o << "o", "k" >> \o Fence, << "7" >> }

\* The texts of up to MaxJson pieces that are JSON.
JsonTexts ==
  { t \in { flatten(parts) : parts \in SeqsUpTo(OutputPieces, MaxJson) } :
      jsonKind(t) # "SyntaxError" }

\* A JSON text between an opening fence, with or without the tag, and a closing
\* fence, on one line or on lines of its own.
FencedTexts ==
  { open \o sep \o j \o sep \o Fence :
      open \in { Fence, Fence \o << "j", "s", "o", "n" >> },
      sep \in { << >>, << "\n" >> },
      j \in JsonTexts }

\* The bodies InvokeModel may answer invocation i with, while it awaits one: an
\* output text, or no results.
ModelResponses(i) ==
  IF fitPc[i] # "model" THEN {}
  ELSE IF modelTexts = "one" THEN { [results |-> << [outputText |-> << ObjPiece >>] >>] }
  ELSE IF modelTexts = "fenced"
  THEN { [results |-> << [outputText |-> t] >>] : t \in FencedTexts \cup JsonTexts }
  ELSE { [results |-> << [outputText |-> t] >>] :
           t \in IF modelTexts = "any" THEN AnyTexts ELSE PlainTexts }
         \cup { [results |-> << >>], [inputTextTokenCount |-> 1] }

(***************************************************************************)
(* Specifications.                                                         *)
(***************************************************************************)
Invocations == { "A", "B" }

NotInvoked == [notInvoked |-> TRUE]

\* The fit handler is not invoked.
FitIdle ==
  /\ fitEvent = [i \in Invocations |-> NotInvoked]
  /\ fitPc = [i \in Invocations |-> "idle"]
  /\ fitIdx = [i \in Invocations |-> 0]
  /\ aiFit = [i \in Invocations |-> NoItem]
  /\ fitResult = [i \in Invocations |-> "pending"]
  /\ modelTexts = "none"
  /\ modelOut = [i \in Invocations |-> << >>]
  /\ modelCalls = [i \in Invocations |-> << >>]
  /\ updateCalls = [i \in Invocations |-> << >>]
  /\ fitOutcome = [i \in Invocations |-> << >>]

\* The ingestion handler is not invoked.
IngestIdle ==
  /\ event = [source |-> "none"]
  /\ ocrBlocks = {}
  /\ pc = "idle"
  /\ idx = 0
  /\ bucket = << >>
  /\ key = << >>
  /\ jobId = 0
  /\ jobStatus = Undefined
  /\ pagesText = << >>
  /\ nextToken = Undefined
  /\ item = NoItem
  /\ result = NoResult
  /\ uuid = 0
  /\ jobs = 0
  /\ polls = 0
  /\ gets = << >>
  /\ startCalls = << >>
  /\ putCalls = << >>
  /\ outcome = << >>

\* The rows the ingestion handler stored for the two candidates.
StoredRows ==
  { putItemParams(parseCandidate(c, BucketName, << "a", " ", "b" >>, ResumeText)) :
      c \in { Candidate1, Candidate2 } }

\* Invocation "A" of the fit handler gets one of eventsA, invocation "B" one of
\* eventsB; the model answers with texts of the range `texts`.
FitInit(eventsA, eventsB, texts) ==
  /\ fitEvent \in { [i \in Invocations |-> IF i = "A" THEN a ELSE b] :
                       a \in eventsA, b \in eventsB }
  /\ fitPc = [i \in Invocations |-> IF fitEvent[i] = NotInvoked THEN "idle" ELSE "entry"]
  /\ fitIdx = [i \in Invocations |-> 0]
  /\ aiFit = [i \in Invocations |-> NoItem]
  /\ fitResult = [i \in Invocations |-> "pending"]
  /\ modelTexts = texts
  /\ modelOut = [i \in Invocations |-> [k \in 1..Len(FitRecords(i)) |-> << >>]]
  /\ modelCalls = [i \in Invocations |-> [k \in 1..Len(FitRecords(i)) |-> 0]]
  /\ updateCalls = [i \in Invocations |-> [k \in 1..Len(FitRecords(i)) |-> 0]]
  /\ fitOutcome = [i \in Invocations |-> [k \in 1..Len(FitRecords(i)) |-> "none"]]
  /\ table = StoredRows

FitNext ==
  \E i \in Invocations :
    \/ FitEntry(i)
    \/ FitLoopHead(i)
    \/ \E responseJson \in ModelResponses(i) : ModelResolved(i, responseJson)
    \/ ModelRejected(i)
    \/ UpdateResolved(i)
    \/ UpdateRejected(i)

\* One invocation on a batch of up to MaxFitBatch change records of any shape, or
\* on an event without Records.
InitFit ==
  /\ IngestIdle
  /\ FitInit({ [Records |-> b] : b \in SeqsUpTo(FitRecordShapes, MaxFitBatch) }
               \cup { [source |-> "test"] },
             { NotInvoked }, "plain")

SpecFit == InitFit /\ [][FitNext]_vars

\* Two overlapping invocations, each on a batch of up to MaxFitBatch insert records.
InitFitRace ==
  /\ IngestIdle
  /\ FitInit({ [Records |-> b] : b \in SeqsUpTo(RaceRecordShapes, MaxFitBatch) },
             { [Records |-> b] : b \in SeqsUpTo(RaceRecordShapes, MaxFitBatch) }, "one")

SpecFitRace == InitFitRace /\ [][FitNext]_vars

\* One invocation on one new row; the model answers with any text of up to MaxOut
\* pieces.
InitEval ==
  /\ IngestIdle
  /\ FitInit({ [Records |-> << Change("INSERT", Image(Candidate1, ResumeText, Null)) >>] },
             { NotInvoked }, "any")

SpecEval == InitEval /\ [][FitNext]_vars

\* The ingestion handler is invoked with one of `events`.
IngestStart(events, blocks) ==
  /\ event \in events
  /\ ocrBlocks = blocks
  /\ pc = "entry"
  /\ idx = 0
  /\ bucket = << >>
  /\ key = << >>
  /\ jobId = 0
  /\ jobStatus = Undefined
  /\ pagesText = << >>
  /\ nextToken = Undefined
  /\ item = NoItem
  /\ result = NoResult
  /\ uuid = 0
  /\ jobs = 0
  /\ polls = 0
  /\ gets = << >>
  /\ startCalls = [i \in 1..Len(Records) |-> 0]
  /\ putCalls = [i \in 1..Len(Records) |-> 0]
  /\ outcome = [i \in 1..Len(Records) |-> "none"]

\* The ingestion handler is invoked with one of `events`, the store being empty.
IngestInit(events, blocks) == IngestStart(events, blocks) /\ table = {}

IngestNext ==
  \/ HandlerEntry
  \/ LoopHead
  \/ StartResolved
  \/ StartRejected
  \/ SleepResolved
  \/ \E res \in GetResponses : GetResolved(res)
  \/ \E res \in GetResponses : MoreResolved(res)
  \/ GetRejected
  \/ PutResolved
  \/ PutRejected

\* Batches of up to MaxBatch notifications; every result page carries one line.
BatchEvents ==
  { [Records |-> b] : b \in SeqsUpTo(BatchRecords, MaxBatch) } \cup { [source |-> "test"] }

Init == IngestInit(BatchEvents, PlainBlocks) /\ FitIdle

Next == IngestNext

Spec == Init /\ [][Next]_vars

\* One notification of an upload.
ParseEvents == { [Records |-> << S3Record(<< "a", "+", "b" >>) >>] }

\* One notification; the result pages carry any blocks.
SingleEvents == { [Records |-> << r >>] : r \in SingleRecords }

InitExtract == IngestInit(SingleEvents, SeqsUpTo(BlockAlphabet, MaxBlocks)) /\ FitIdle

SpecExtract == InitExtract /\ [][Next]_vars

\* One well-formed notification; the result pages carry PAGE and WORD blocks, so
\* that the extracted text is empty.  Every await is resumed once it is settled:
\* the OCR service and the store answer each request and the delay of the poll
\* loop runs out.
InitPoll ==
  /\ IngestInit(ParseEvents, SeqsUpTo({ PageBlock, Word(<< "A", "l" >>) }, MaxBlocks))
  /\ FitIdle

SpecPoll == InitPoll /\ [][Next]_vars /\ WF_vars(Next)

\* One invocation on one new row; the model answers with a JSON text, bare or
\* wrapped in fences.
InitFence ==
  /\ IngestIdle
  /\ FitInit({ [Records |-> << Change("INSERT", Image(Candidate1, ResumeText, Null)) >>] },
             { NotInvoked }, "fenced")

SpecFence == InitFence /\ [][FitNext]_vars

\* The store holds the rows of two candidates; the ingestion handler is invoked
\* with one notification while the fit handler is invoked with a batch of up to
\* MaxFitBatch insert records of those rows.
InitStore ==
  /\ IngestStart(ParseEvents, PlainBlocks)
  /\ FitInit({ [Records |-> b] : b \in SeqsUpTo(RaceRecordShapes, MaxFitBatch) },
             { NotInvoked }, "one")

StoreNext == IngestNext \/ FitNext

SpecStore == InitStore /\ [][StoreNext]_vars

\* Both handlers at work on batches of up to MaxFitBatch records: the ingestion
\* handler on notifications of uploads whose result pages carry no block, the fit
\* handler on insert records.
InitBatches ==
  /\ IngestStart({ [Records |-> b] :
                     b \in SeqsUpTo({ S3Record(<< "a", "+", "b" >>) }, MaxFitBatch) },
                 { << >> })
  /\ FitInit({ [Records |-> b] : b \in SeqsUpTo(RaceRecordShapes, MaxFitBatch) },
             { NotInvoked }, "one")

SpecBatches == InitBatches /\ [][StoreNext]_vars

\* The lines of a resume: a name, a blank line, six words, an address, a phone
\* number, an address with a phone number, a title, and skills in other spellings than the vocabulary's.
ResumeLines ==
  { << "A", "l" >>, << " " >>,
    << "a", " ", "b", " ", "c", " ", "d", " ", "e", " ", "f" >>,
    << "a", "@", "b", ".", "c", "o" >>,
    << "+", "1", "2", " ", "3", "4", "5", "-", "6", "7", "8", "9" >>,
    << "a", "@", "b", ".", "c", "o", " ", "1", "2", "3", "4", "5", "6", "7", "8", "9" >>,
    << "M", "y", " ", "R", "e", "s", "u", "m", "e" >>,
    << "s", "q", "l" >>, << "J", "A", "V", "A" >>, << "a", "w", "s" >> }

\* Short resumes of any lines, and resumes longer than the name scan reads, made of
\* a name and a line that is no name; those whose name comes last of the lines
\* read, or later, also with a blank line in front.
ShortPages == { [i \in DOMAIN l |-> Line(l[i])] : l \in SeqsUpTo(ResumeLines, MaxLines) }
LongPages ==
  LET long == [1..(NameScanLines + MaxTail) -> { Line(<< "A", "l" >>), Line(<< "C", "V", " ", "1" >>) }]
      late == { l \in long : \A n \in 1..(NameScanLines - 1) : l[n] = Line(<< "C", "V", " ", "1" >>) }
  IN long \cup { << Line(<< " " >>) >> \o l : l \in late }

\* One notification; the OCR result is one of the resumes above.
InitParse ==
  /\ \E page \in ShortPages \cup LongPages : IngestInit(ParseEvents, { page })
  /\ FitIdle

SpecParse == InitParse /\ [][Next]_vars

\* One notification; the OCR result is one of the short resumes.
InitSkills ==
  /\ \E page \in ShortPages : IngestInit(ParseEvents, { page })
  /\ FitIdle

SpecSkills == InitSkills /\ [][Next]_vars

(***************************************************************************)
(* Properties of the ingestion handler.                                    *)
(***************************************************************************)
Terminated == pc \in { "done", "rejected" }

\* The records that reach the try block when their turn comes.
WellFormed(i) == ~ ThrowsBeforeTry(Records[i])

Saved == { i \in 1..Len(Records) : outcome[i] = "saved" }
Failed == { i \in 1..Len(Records) : outcome[i] = "failed" }

\* C1: whichever records fail in text extraction or in the store write, the loop
\* goes on: when the invocation has ended, every record that no malformed
\* notification precedes has been attempted (its OCR job was started), has ended
\* saved or failed, and each saved record was written with exactly one PutItem.
C1_FailuresDoNotStopTheBatch ==
  /\ \A i \in Failed : idx > i
  /\ Terminated =>
       \A i \in 1..Len(Records) :
         (\A j \in 1..i : WellFormed(j)) =>
           /\ startCalls[i] = 1
           /\ outcome[i] \in { "saved", "failed" }
           /\ outcome[i] = "saved" => putCalls[i] = 1

\* C1 witness: a batch of three whose second record failed in extraction (no PutItem
\* was sent for it) and whose first and third records are saved.
C1_Witness ==
  /\ pc = "done"
  /\ Len(Records) = 3
  /\ outcome = << "saved", "failed", "saved" >>
  /\ putCalls = << 1, 0, 1 >>
  /\ Cardinality(table) = 2

\* C2: a record is never retried (at most one OCR start and at most one PutItem per
\* record), a failed record leaves no row, and the rows of the store are as many as
\* the records that completed without failure.
C2_NoRetryNoPartialRow ==
  /\ \A i \in 1..Len(Records) : startCalls[i] <= 1 /\ putCalls[i] <= 1
  /\ Cardinality(table) = Cardinality(Saved)
  /\ (item # NoItem) => (pc = "put" /\ \A r \in table : r.candidateId.S # item.candidateId)

\* C2 witness: the invocation ended with one record saved, one that failed in the
\* store write and one that failed before any write.
C2_Witness ==
  /\ pc = "done"
  /\ \E i \in Failed : putCalls[i] = 1
  /\ \E i \in Failed : putCalls[i] = 0 /\ startCalls[i] = 1
  /\ Cardinality(Saved) = 1
  /\ Cardinality(table) = 1

\* C3 (as claimed): a malformed notification (a key that cannot be decoded, missing
\* container/key fields) is caught per record: the invocation does not reject, and
\* every well-formed record of the batch is attempted.
C3_MalformedInputIsCaught ==
  /\ pc # "rejected"
  /\ pc = "done" => \A i \in 1..Len(Records) : WellFormed(i) => startCalls[i] = 1

\* C19 (as claimed): the invocation never rejects; when it has ended on a batch
\* with records it has resolved with 200 "OK" whatever the records' outcomes, and
\* on an event with no records it has resolved with 200 "No records" and no
\* request was sent to the OCR service or to the store.
C19_AlwaysReportsSuccess ==
  /\ pc # "rejected"
  /\ result # NoResult =>
       /\ pc = "done"
       /\ result = [statusCode |-> 200,
                    body |-> IF Len(Records) = 0 THEN "No records" ELSE "OK"]
       /\ Len(Records) = 0 => (jobs = 0 /\ table = {} /\ startCalls = << >> /\ putCalls = << >>)

\* C7 (as claimed): the extraction returns text, and the handler goes on to write a
\* row, only for a job whose status is SUCCEEDED.
C7_OnlySucceededReturnsText ==
  pc = "put" => jobStatus = "SUCCEEDED"

\* The texts of the LINE blocks of a result page that carry text, in reported order.
RECURSIVE LineTexts(_)
LineTexts(blocks) ==
  IF blocks = << >> THEN << >>
  ELSE (IF blocks[1].BlockType = "LINE" /\ Has(blocks[1], "Text") /\ Len(blocks[1].Text) > 0
        THEN << blocks[1].Text >> ELSE << >>) \o LineTexts(Tail(blocks))

BlocksOf(res) == IF Has(res, "Blocks") THEN res.Blocks ELSE << >>

\* The first exchange of the current extraction that was answered SUCCEEDED.
FirstSucceeded ==
  CHOOSE k \in 1..Len(gets) :
    /\ gets[k].res.JobStatus = "SUCCEEDED"
    /\ \A j \in 1..(k - 1) : gets[j].res.JobStatus # "SUCCEEDED"

\* C8: when the job answered IN_PROGRESS some number of times and then SUCCEEDED and
\* the extraction has returned, every page was fetched: each further request carried
\* the continuation token of the answer before it, the last answer carried none, and
\* the text is the newline-join, in fetch order, of the newline-joins of each page's
\* LINE texts.
C8_PagesDrainedInOrder ==
  (pc = "put" /\ jobStatus = "SUCCEEDED") =>
    LET s == FirstSucceeded
    IN /\ \A k \in 1..(s - 1) : gets[k].res.JobStatus = "IN_PROGRESS"
       /\ \A k \in 1..Len(gets) : gets[k].req.JobId = jobId
       /\ \A k \in 1..s : gets[k].req.NextToken = Undefined
       /\ \A k \in (s + 1)..Len(gets) :
            /\ Has(gets[k - 1].res, "NextToken")
            /\ gets[k].req.NextToken = gets[k - 1].res.NextToken
       /\ ~ Has(gets[Len(gets)].res, "NextToken")
       /\ item.rawText =
            joinNL([k \in 1..(Len(gets) - s + 1) |->
                      joinNL(LineTexts(BlocksOf(gets[s + k - 1].res)))])

\* C8 witness: IN_PROGRESS once, then SUCCEEDED with two pages joined by a
\* continuation token, one line on each; the text is "Al", newline, "SQL".
C8_Witness ==
  /\ pc = "put"
  /\ jobStatus = "SUCCEEDED"
  /\ Len(gets) = 3
  /\ gets[1].res.JobStatus = "IN_PROGRESS"
  /\ Has(gets[2].res, "NextToken")
  /\ item.rawText = << "A", "l", "\n", "S", "Q", "L" >>

\* The extraction call of the current record is under way.
Extracting == pc \in { "start", "sleep", "poll", "more" }

\* C17: while the extraction polls, one start request was sent for the record and
\* no other is; a status request is sent only after the delay; the call is in its
\* poll loop only while the status is IN_PROGRESS, and an IN_PROGRESS answer always
\* leads to the next delay, never to a return or a failure; and once the job has
\* answered with a terminal status and the pages have ended, the call ends.
C17_PollsUntilTerminal ==
  /\ [][ /\ pc \in { "sleep", "poll", "more" } => (startCalls[idx] = 1 /\ jobs' = jobs)
         /\ pc' = "poll" => pc \in { "sleep", "poll" }
         /\ pc \in { "sleep", "poll" } => jobStatus = "IN_PROGRESS"
         /\ (pc = "poll" /\ gets' # gets
               /\ gets'[Len(gets')].res.JobStatus = "IN_PROGRESS") =>
              (pc' = "sleep" /\ item' = NoItem /\ outcome' = outcome) ]_vars
  /\ (pc = "start") ~> ~ Extracting

\* C17 witness: the job has answered IN_PROGRESS twice and the call awaits the
\* delay before its third status request.
C17_Witness ==
  /\ pc = "sleep"
  /\ Len(gets) = 2
  /\ \A n \in 1..2 : gets[n].res.JobStatus = "IN_PROGRESS"
  /\ startCalls = << 1 >>

\* A parsed value is there: neither null nor the empty text or list.
Present(v) == v # Null /\ v # << >>

RequiredAttributes == { "candidateId", "bucket", "fileKey", "rawText" }

\* The optional attributes a row of the candidate it is to carry.
OptionalAttributes(it) ==
  { a \in { "name", "email", "phone", "skills" } : Present(it[a]) }

\* C11: for every candidate handed to the store writer exactly one PutItem is sent;
\* the store changes only when that PutItem resolves, by the one row it carries,
\* whatever the store holds; the row has candidateId, bucket, fileKey and rawText
\* and has name, email, phone and skills exactly when the parsed value is present
\* and non-empty, each attribute holding the parsed value.
C11_OneWriteOptionalFieldsOmitted ==
  [][ /\ (pc = "put" \/ item # NoItem) => putCalls[idx] = 1
      /\ \A i \in 1..Len(Records) : putCalls'[i] <= 1
      /\ table' # table =>
           /\ pc = "put"
           /\ \E row \in table' :
                /\ table' = table \cup { row }
                /\ DOMAIN row = RequiredAttributes \cup OptionalAttributes(item)
                /\ \A a \in DOMAIN row \ { "skills" } : row[a] = [S |-> item[a]]
                /\ Has(row, "skills") => row.skills = [SS |-> item.skills] ]_vars

\* C11 witness: a stored row with an address and a phone number and, the resume
\* holding no name and no skill, without the attributes name and skills.
C11_Witness ==
  /\ pc = "done"
  /\ outcome = << "saved" >>
  /\ \E row \in table :
       /\ DOMAIN row = RequiredAttributes \cup { "email", "phone" }
       /\ row.email.S = << "a", "@", "b", ".", "c", "o" >>
       /\ row.phone.S = << "1", "2", "3", "4", "5", "6", "7", "8", "9" >>

\* Two characters that are the same but for the case of a letter.
SameLetter(a, b) ==
  \/ a = b
  \/ a \in Upper /\ b \in LowerLetters /\ Code(b) - Code(a) = Code("a") - Code("A")
  \/ b \in Upper /\ a \in LowerLetters /\ Code(a) - Code(b) = Code("a") - Code("A")

\* The entry occurs in the text, whatever the case of the letters.
OccursIn(text, entry) ==
  \E start \in 1..(Len(text) - Len(entry) + 1) :
    \A k \in 1..Len(entry) : SameLetter(text[start + k - 1], entry[k])

\* a comes before b: at the first place they differ the character of a has the
\* smaller code, or a is a proper prefix of b.
Precedes(a, b) ==
  \/ Len(a) < Len(b) /\ SubSeq(b, 1, Len(a)) = a
  \/ \E n \in 1..(IF Len(a) < Len(b) THEN Len(a) ELSE Len(b)) :
       /\ SubSeq(a, 1, n - 1) = SubSeq(b, 1, n - 1)
       /\ Code(a[n]) < Code(b[n])

Swap(list, a, b) ==
  [n \in 1..Len(list) |-> IF n = a THEN list[b] ELSE IF n = b THEN list[a] ELSE list[n]]

\* C15: the skills parsed from a text are exactly the entries of the vocabulary
\* that occur in it whatever the case, each once and in the vocabulary's spelling,
\* in ascending order; exchanging two neighbouring lines of the text leaves the
\* result as it is, and so does parsing the newline-join of the result.
C15_SkillsSortedSubsetOfVocabulary ==
  (item # NoItem) =>
    LET text == item.rawText
        found == item.skills
        lines == splitLines(text)
    IN /\ { found[n] : n \in 1..Len(found) } =
            { knownSkills[v] : v \in { w \in 1..Len(knownSkills) : OccursIn(text, knownSkills[w]) } }
       /\ \A m, n \in 1..Len(found) : m < n => Precedes(found[m], found[n])
       /\ \A a \in 1..(Len(lines) - 1) : extractSkills(joinNL(Swap(lines, a, a + 1))) = found
       /\ extractSkills(joinNL(found)) = found

\* C15 witness: the text holds JAVA on its first line and aws on its second; the
\* skills are AWS, then Java.
C15_Witness ==
  /\ pc = "put"
  /\ item.rawText = << "J", "A", "V", "A", "\n", "a", "w", "s" >>
  /\ item.skills = << << "A", "W", "S" >>, << "J", "a", "v", "a" >> >>

\* The whitespace-separated tokens of a line: its runs of other characters.
Tokens(line) ==
  Cardinality({ n \in 1..Len(line) :
                  line[n] \notin Whitespace /\ (n = 1 \/ line[n - 1] \in Whitespace) })

\* The line may be a name.
Qualifies(line) ==
  /\ ~ OccursIn(line, << "r", "e", "s", "u", "m", "e" >>)
  /\ ~ OccursIn(line, << "c", "u", "r", "r", "i", "c", "u", "l", "u", "m" >>)
  /\ ~ OccursIn(line, << "v", "i", "t", "a", "e" >>)
  /\ \A n \in 1..Len(line) : line[n] # "@" /\ line[n] \notin Digits
  /\ Tokens(line) <= 5

\* The lines of a text, trimmed, without the blank ones.
NonBlankLines(text) ==
  SelectSeq([n \in 1..Len(splitLines(text)) |-> trim(splitLines(text)[n])],
            LAMBDA l : l # << >>)

\* C16: the name parsed from a text is the first of its first 8 non-blank lines,
\* trimmed, that holds none of "resume", "curriculum", "vitae" in any case, no "@"
\* and no digit and has at most 5 tokens; it is null when none of the 8 is such a
\* line, whatever the lines after them are.
C16_NameIsFirstQualifyingOfEight ==
  (item # NoItem) =>
    LET lines == NonBlankLines(item.rawText)
        read == { n \in 1..Len(lines) : n <= 8 }
        good == { n \in read : Qualifies(lines[n]) }
    IN IF good = {} THEN item.name = Null
       ELSE item.name = lines[CHOOSE n \in good : \A m \in good : n <= m]

\* C16 witness: a blank line, eight lines with a digit, and a ninth non-blank line
\* that could be a name; no name is parsed.
C16_Witness ==
  /\ pc = "put"
  /\ Len(splitLines(item.rawText)) = 10
  /\ Len(NonBlankLines(item.rawText)) = 9
  /\ \A n \in 1..8 : ~ Qualifies(NonBlankLines(item.rawText)[n])
  /\ Qualifies(NonBlankLines(item.rawText)[9])
  /\ item.name = Null

(***************************************************************************)
(* Properties of the fit handler.                                          *)
(***************************************************************************)
FitPlaces == { << i, k >> : i \in Invocations, k \in 1..MaxFitBatch + 1 }

\* The records delivered to the invocations: << invocation, place in its batch >>.
Delivered == { p \in FitPlaces : p[2] <= Len(FitRecords(p[1])) }

RecordAt(p) == FitRecords(p[1])[p[2]]

\* The new-row snapshot of a delivered record carries the attribute.
SnapshotHas(rec, name) ==
  /\ Has(rec, "dynamodb")
  /\ Has(rec.dynamodb, "NewImage")
  /\ name \in DOMAIN rec.dynamodb.NewImage

\* The attribute is there and is a non-empty text.
SnapshotText(rec, name) ==
  /\ SnapshotHas(rec, name)
  /\ Has(rec.dynamodb.NewImage[name], "S")
  /\ Len(rec.dynamodb.NewImage[name].S) > 0

IsInsert(rec) == Has(rec, "eventName") /\ rec.eventName = "INSERT"

\* C4: an INSERT record whose new-row snapshot already carries aiFit gets no model
\* call and no store update, whatever else is in the batch.
C4_NoModelCallWhenAiFitPresent ==
  \A p \in Delivered :
    (IsInsert(RecordAt(p)) /\ SnapshotHas(RecordAt(p), "aiFit")) =>
      /\ modelCalls[p[1]][p[2]] = 0
      /\ updateCalls[p[1]][p[2]] = 0
      /\ modelOut[p[1]][p[2]] = << >>

\* C4 witness: an invocation that has ended, whose batch holds a new row that
\* was evaluated and an INSERT record with candidateId, rawText and aiFit.
C4_Witness ==
  /\ fitPc["A"] = "done"
  /\ Len(FitRecords("A")) = 2
  /\ IsInsert(RecordAt(<< "A", 2 >>))
  /\ SnapshotHas(RecordAt(<< "A", 2 >>), "aiFit")
  /\ SnapshotText(RecordAt(<< "A", 2 >>), "candidateId")
  /\ SnapshotText(RecordAt(<< "A", 2 >>), "rawText")
  /\ fitOutcome["A"] = << "updated", "skipped" >>

\* The records the handler is to evaluate.
Eligible(rec) ==
  /\ IsInsert(rec)
  /\ SnapshotText(rec, "candidateId")
  /\ SnapshotText(rec, "rawText")
  /\ ~ SnapshotHas(rec, "aiFit")

\* C9: a model call or a store update is made only for an INSERT record with a
\* non-empty candidateId, a non-empty rawText and no aiFit, and an update only
\* after the model call of that record.
C9_OnlyEligibleRecordsEvaluated ==
  \A p \in Delivered :
    /\ (modelCalls[p[1]][p[2]] > 0 \/ updateCalls[p[1]][p[2]] > 0) => Eligible(RecordAt(p))
    /\ updateCalls[p[1]][p[2]] <= modelCalls[p[1]][p[2]]
    /\ fitOutcome[p[1]][p[2]] = "updated" => Eligible(RecordAt(p))

\* C9 witness: an invocation that has ended after skipping an INSERT record whose
\* rawText is the empty text and evaluating a new row.
C9_Witness ==
  /\ fitPc["A"] = "done"
  /\ Len(FitRecords("A")) = 2
  /\ IsInsert(RecordAt(<< "A", 1 >>))
  /\ SnapshotHas(RecordAt(<< "A", 1 >>), "rawText")
  /\ ~ SnapshotText(RecordAt(<< "A", 1 >>), "rawText")
  /\ SnapshotText(RecordAt(<< "A", 1 >>), "candidateId")
  /\ ~ SnapshotHas(RecordAt(<< "A", 1 >>), "aiFit")
  /\ modelCalls["A"] = << 0, 1 >>
  /\ updateCalls["A"] = << 0, 1 >>

\* C10: a failure of the model call or of the store update is caught per record:
\* the loop has moved past every failed record, no record gets more than one
\* model call or one update, a record whose model call failed gets no update, the
\* invocation never rejects, and when it has ended every record was processed.
C10_FailuresCaughtPerRecord ==
  /\ \A i \in Invocations : fitPc[i] # "rejected" /\ fitResult[i] # "rejected"
  /\ \A p \in Delivered :
       /\ modelCalls[p[1]][p[2]] <= 1
       /\ updateCalls[p[1]][p[2]] <= 1
       /\ fitOutcome[p[1]][p[2]] = "failed" => fitIdx[p[1]] > p[2]
       /\ (modelCalls[p[1]][p[2]] = 1 /\ modelOut[p[1]][p[2]] = << >>
             /\ fitOutcome[p[1]][p[2]] = "failed") => updateCalls[p[1]][p[2]] = 0
       /\ fitPc[p[1]] = "done" => fitOutcome[p[1]][p[2]] # "none"

\* C10 witness: an invocation that has resolved after a record whose model call
\* failed (no update was sent for it) and a record whose store update failed.
C10_Witness ==
  /\ fitPc["A"] = "done"
  /\ fitResult["A"] = "resolved"
  /\ fitOutcome["A"] = << "failed", "failed" >>
  /\ modelCalls["A"] = << 1, 1 >>
  /\ updateCalls["A"] = << 0, 1 >>

CandidateOf(rec) == rec.dynamodb.NewImage.candidateId.S

RECURSIVE ModelCallsAt(_)
ModelCallsAt(places) ==
  IF places = {} THEN 0
  ELSE LET p == CHOOSE x \in places : TRUE
       IN modelCalls[p[1]][p[2]] + ModelCallsAt(places \ {p})

PlacesOf(c) == { p \in Delivered : SnapshotText(RecordAt(p), "candidateId")
                                    /\ CandidateOf(RecordAt(p)) = c }

ModelCallsFor(c) == ModelCallsAt(PlacesOf(c))
WritesFor(c) == Cardinality({ p \in PlacesOf(c) : fitOutcome[p[1]][p[2]] = "updated" })

\* C5 (as claimed): over every interleaving the model is invoked at most once and
\* aiFit is written at most once for any candidateId.
C5_AtMostOncePerCandidate ==
  \A c \in { Candidate1, Candidate2 } : ModelCallsFor(c) <= 1 /\ WritesFor(c) <= 1

\* C5 (amended): for any candidateId the model is invoked, and aiFit written, at
\* most once per delivered INSERT record of that candidateId whose snapshot has
\* rawText and no aiFit.
C5_AtMostOncePerDeliveredInsert ==
  \A c \in { Candidate1, Candidate2 } :
    LET n == Cardinality({ p \in PlacesOf(c) : Eligible(RecordAt(p)) })
    IN ModelCallsFor(c) <= n /\ WritesFor(c) <= n

\* C5 witness: two overlapping invocations were handed the insert of the same row;
\* both have called the model for it and both await their store update, and the
\* batch of one of them also holds that row with aiFit, which was skipped.
C5_Witness ==
  /\ fitPc["A"] = "update"
  /\ fitPc["B"] = "update"
  /\ CandidateOf(RecordAt(<< "A", fitIdx["A"] >>)) = Candidate1
  /\ CandidateOf(RecordAt(<< "B", fitIdx["B"] >>)) = Candidate1
  /\ ModelCallsFor(Candidate1) = 2
  /\ \E p \in PlacesOf(Candidate1) : fitOutcome[p[1]][p[2]] = "skipped"

\* The output text of the answer the model gave for a delivered record, if any.
Answered(p) ==
  /\ modelOut[p[1]][p[2]] # << >>
  /\ Has(modelOut[p[1]][p[2]][1], "results")
  /\ Len(modelOut[p[1]][p[2]][1].results) > 0

AnswerOf(p) == modelOut[p[1]][p[2]][1]
RawText(p) == AnswerOf(p).results[1].outputText

\* The evaluator returned for the record with the assessment fit and the handler
\* passes it on: an update was sent, it carries fit, and a finished update left
\* fit, as JSON text, in the aiFit attribute of the row.
HandedOn(p, fit) ==
  /\ updateCalls[p[1]][p[2]] = 1
  /\ (fitPc[p[1]] = "update" /\ fitIdx[p[1]] = p[2]) => aiFit[p[1]] = fit
  /\ fitOutcome[p[1]][p[2]] = "updated" =>
       \E r \in table : /\ r.candidateId.S = CandidateOf(RecordAt(p))
                        /\ Has(r, "aiFit")
                        /\ r.aiFit.S = jsonStringify(fit)

\* C6 (as claimed): for every output text that is not valid JSON the evaluator
\* returns the degraded assessment whose summary is that output text, and the
\* handler writes it to the store.
C6_RawOutputIsTheSummary ==
  \A p \in Delivered :
    (Answered(p) /\ jsonKind(RawText(p)) = "SyntaxError") =>
      HandedOn(p, Degraded(RawText(p)))

\* C6 (amended): for every output text that, once trimmed and freed of its code
\* fences, is not valid JSON, the evaluator returns the degraded assessment whose
\* summary is that trimmed, fence-free text, and the handler writes it to the
\* store.
C6_CleanedOutputIsTheSummary ==
  \A p \in Delivered :
    (Answered(p) /\ jsonKind(cleanedOutput(AnswerOf(p))) = "SyntaxError") =>
      HandedOn(p, Degraded(cleanedOutput(AnswerOf(p))))

\* C6 witness: the model answered with fenced prose and the row of the candidate
\* now holds the degraded assessment whose summary is the prose without fences.
C6_Witness ==
  /\ fitOutcome["A"] = << "updated" >>
  /\ Answered(<< "A", 1 >>)
  /\ RawText(<< "A", 1 >>) = Fence \o << "o", "k" >> \o Fence
  /\ \E r \in table :
       Has(r, "aiFit") /\ r.aiFit.S = jsonStringify(Degraded(<< "o", "k" >>))

\* The labels of the schema of the prompt, and the sentinel of the fallback.
LevelLabels ==
  { << "J", "u", "n", "i", "o", "r" >>, << "M", "i", "d" >>,
    << "S", "e", "n", "i", "o", "r" >>, << "L", "e", "a", "d" >>,
    << "P", "r", "i", "n", "c", "i", "p", "a", "l" >>,
    << "U", "n", "k", "n", "o", "w", "n" >> }

\* The member of an object value under the key k, JNull when there is none.
MemberOf(v, k) ==
  LET at == { n \in 1..Len(v.members) : v.members[n].k = k }
  IN IF at = {} THEN JNull ELSE v.members[CHOOSE n \in at : TRUE].v

\* A number of 0..100: up to two digits, or 100.
ScoreInRange(num) == Len(num.digits) <= 2 \/ num.digits = << "1", "0", "0" >>

\* The value has the shape of a fit assessment.
Conforms(v) ==
  /\ v.t = "object"
  /\ { v.members[n].k : n \in 1..Len(v.members) } =
       { "fitScore", "summary", "keyStrengths", "concerns", "skillsMatched",
         "skillsMissing", "recommendedLevel" }
  /\ MemberOf(v, "fitScore").t \in { "null", "number" }
  /\ MemberOf(v, "fitScore").t = "number" => ScoreInRange(MemberOf(v, "fitScore"))
  /\ MemberOf(v, "summary").t = "string"
  /\ \A k \in { "keyStrengths", "concerns", "skillsMatched", "skillsMissing" } :
       MemberOf(v, k).t = "array"
  /\ MemberOf(v, "recommendedLevel").t = "string"
  /\ MemberOf(v, "recommendedLevel").t = "string" =>
       MemberOf(v, "recommendedLevel").s \in LevelLabels

\* C13 (as claimed): every value the evaluator returns, which the handler hands to
\* the store updater, has the shape of a fit assessment; a bare number, null or an
\* empty object is never handed on.
C13_StoredAssessmentsConform ==
  \A i \in Invocations : fitPc[i] = "update" => Conforms(aiFit[i])

\* What the evaluator returns for the output text t.
Evaluated(t) == evaluateResponse([results |-> << [outputText |-> t] >>])

\* C14 (as claimed): when the model's output is a JSON text between fence markers,
\* the evaluator returns what it returns for that JSON text alone.
C14_FencedJsonParsesAlike ==
  \A p \in Delivered :
    (Answered(p) /\ fitPc[p[1]] = "update" /\ fitIdx[p[1]] = p[2]) =>
      \A j \in JsonTexts :
        (\E open \in { Fence, Fence \o << "j", "s", "o", "n" >> }, sep \in { << >>, << "\n" >> } :
           RawText(p) = open \o sep \o j \o sep \o Fence)
        => aiFit[p[1]] = Evaluated(j)

(***************************************************************************)
(* Properties of the store.                                                 *)
(***************************************************************************)
\* A row without its fit assessment.
Frame(row) == [a \in DOMAIN row \ { "aiFit" } |-> row[a]]

\* The invocations of the fit handler whose store update resolves in this step.
Updating ==
  { i \in Invocations : fitPc[i] = "update" /\ fitOutcome'[i][fitIdx[i]] = "updated" }

\* C12: on every step of the two handlers, every stored row is still there under
\* its candidateId with every attribute other than aiFit as it was; the rows the
\* store began with keep the attributes they were created with; and a store
\* update of the fit handler leaves the number of rows and every row but the one
\* of the record's candidateId as they were.
C12_OnlyAiFitChanges ==
  [][ /\ \A row \in table :
           \E new \in table' :
             /\ Frame(new) = Frame(row)
             /\ \A other \in table' : other.candidateId = row.candidateId => other = new
      /\ \A row \in StoredRows : \E new \in table' : Frame(new) = row
      /\ \A i \in Updating :
           /\ Cardinality(table') = Cardinality(table)
           /\ \A row \in table :
                row.candidateId.S # CandidateOf(FitRecords(i)[fitIdx[i]]) => row \in table'
           /\ \E new \in table' :
                /\ new.candidateId.S = CandidateOf(FitRecords(i)[fitIdx[i]])
                /\ Has(new, "aiFit")
                /\ new.aiFit.S = jsonStringify(aiFit[i]) ]_vars

\* C12 witness: the ingestion handler has stored a third row, the fit handler has
\* attached an assessment to the row of the first candidate, and that row still
\* holds what it was created with.
C12_Witness ==
  /\ outcome = << "saved" >>
  /\ Cardinality(table) = 3
  /\ \E i \in Invocations, k \in 1..MaxFitBatch :
       k <= Len(FitRecords(i)) /\ fitOutcome[i][k] = "updated"
  /\ \E row \in table :
       /\ row.candidateId.S = Candidate1
       /\ Has(row, "aiFit")
       /\ Frame(row) \in StoredRows
  /\ \E row \in table : row.candidateId.S = Candidate2 /\ ~ Has(row, "aiFit")

\* The external call the ingestion handler awaits: 1 while a request to the OCR
\* service or to the store is outstanding, 0 at the loop head, during the delay
\* of the poll loop and after the return.
Outstanding == IF pc \in { "start", "poll", "more", "put" } THEN 1 ELSE 0

\* The same for invocation i of the fit handler.
FitOutstanding(i) == IF fitPc[i] \in { "model", "update" } THEN 1 ELSE 0

\* Requests sent for record k of the ingestion batch (the status requests of the
\* record at hand are the exchanges of gets and the one that is outstanding).
Sent(k) == startCalls[k] + putCalls[k]

\* Requests sent for record k of the batch of invocation i of the fit handler.
FitSent(i, k) == modelCalls[i][k] + updateCalls[i][k]

\* C18: in each invocation of either handler the records are taken one by one in
\* batch order.  A record has had requests sent for it only if it is the record at
\* hand or an earlier one and every record before it is settled (saved, updated,
\* skipped or failed); while a request is outstanding it belongs to the record at
\* hand, which is not settled, and no later record has had any; a settled record
\* gets no further request; the loop moves from a record to the next one only; and
\* a step sends a request only from a position where none is outstanding or
\* by resuming from the one that was.
C18_RecordsStrictlySequential ==
  /\ [] /\ \A k \in 1..Len(outcome) :
             Sent(k) > 0 => (k <= idx /\ \A j \in 1..(k - 1) : outcome[j] # "none")
        /\ Outstanding = 1 =>
             /\ idx \in 1..Len(outcome)
             /\ outcome[idx] = "none"
             /\ \A k \in (idx + 1)..Len(outcome) : Sent(k) = 0
        /\ \A i \in Invocations :
             /\ \A k \in 1..Len(fitOutcome[i]) :
                  FitSent(i, k) > 0 =>
                    (k <= fitIdx[i] /\ \A j \in 1..(k - 1) : fitOutcome[i][j] # "none")
             /\ FitOutstanding(i) = 1 =>
                  /\ fitIdx[i] \in 1..Len(fitOutcome[i])
                  /\ fitOutcome[i][fitIdx[i]] = "none"
                  /\ \A k \in (fitIdx[i] + 1)..Len(fitOutcome[i]) : FitSent(i, k) = 0
  /\ [][ /\ idx' \in { idx, idx + 1 }
         /\ \A k \in 1..Len(outcome) :
              /\ outcome[k] # "none" => (Sent(k)' = Sent(k) /\ outcome'[k] = outcome[k])
              /\ Sent(k)' \in { Sent(k), Sent(k) + 1 }
              /\ Sent(k)' # Sent(k) => (k = idx /\ pc \in { "loop", "poll", "more" })
         /\ gets' # gets => (pc \in { "start", "poll", "more" } /\ outcome[idx] = "none")
         /\ (pc' = "poll" /\ pc # "poll") => pc = "sleep"
         /\ \A i \in Invocations :
              /\ fitIdx'[i] \in { fitIdx[i], fitIdx[i] + 1 }
              /\ \A k \in 1..Len(fitOutcome[i]) :
                   /\ fitOutcome[i][k] # "none" =>
                        (FitSent(i, k)' = FitSent(i, k) /\ fitOutcome'[i][k] = fitOutcome[i][k])
                   /\ FitSent(i, k)' \in { FitSent(i, k), FitSent(i, k) + 1 }
                   /\ FitSent(i, k)' # FitSent(i, k) =>
                        (k = fitIdx[i] /\ fitPc[i] \in { "loop", "model" }) ]_vars

\* C18 witness: both handlers are past their first record, the ingestion handler
\* with a store request outstanding for the second notification after the first
\* one failed, the fit handler with a model request outstanding for its second
\* record after the first one was updated.
C18_Witness ==
  /\ Len(outcome) >= 2 /\ idx = 2 /\ pc = "put" /\ outcome[1] = "failed"
  /\ Sent(1) > 0 /\ Sent(2) = 2
  /\ \E i \in Invocations :
       /\ Len(fitOutcome[i]) = 2 /\ fitIdx[i] = 2 /\ fitPc[i] = "model"
       /\ fitOutcome[i][1] = "updated" /\ FitSent(i, 1) = 2 /\ FitSent(i, 2) = 1

====
